---- MODULE Spec2Model ----
(***************************************************************************)
(* Model of the EnOcean integration: the identifier / EEP codec            *)
(* (utilities.py), the switch entity (switch.py), the dongle adapter       *)
(* (dongle.py) and the config-entry lifecycle (__init__.py).               *)
(*                                                                         *)
(* Python strings are sequences of one-character strings.  A Python value  *)
(* whose type the code inspects is a record [t |-> type, v |-> value].     *)
(* The outcome of a call is Return(v) or Raise(exception class).           *)
(***************************************************************************)
EXTENDS Integers, Sequences, FiniteSets, TLC

VARIABLES
    fn, arg, ret, origin,          \* codec: last call, its argument, its outcome, where the argument came from
    entities,                      \* switch platform: the EnOceanSwitch entities added so far
    send_channel,                  \* commands the last operation pushed on SIGNAL_SEND_MESSAGE
    op,                            \* the operation that ran last, <<name, entity or dongle>>
    packet,                        \* the packet handed to the handler that ran last
    dongles,                       \* the EnOceanDongle objects created so far, with their communicators
    send_subscribers,              \* dongles connected to SIGNAL_SEND_MESSAGE
    hass_data,                     \* hass.data[DATA_ENOCEAN][ENOCEAN_DONGLE], 0 when DATA_ENOCEAN is absent
    entry_state,                   \* state of the config entry
    registry,                      \* devices of the device registry
    receive_channel,               \* packets the last operation broadcast on SIGNAL_RECEIVE_MESSAGE
    create_attempts                \* device creations the last operation attempted

codecVars == <<fn, arg, ret, origin>>
switchVars == <<entities>>
busVars == <<send_channel, op, packet>>
dongleVars == <<dongles, send_subscribers, hass_data, entry_state, registry, receive_channel, create_attempts>>
vars == <<codecVars, switchVars, busVars, dongleVars>>

----------------------------------------------------------------------------
(* Bounds *)

MaxTokens == 5        \* most colon-separated tokens in an input string
MaxListLen == 5       \* longest list handed to the codec

(* Program constants *)

IdLength == 4         \* utilities.py:40
EEPLength == 3        \* utilities.py:66
FormatWidth == 2      \* utilities.py:27  (the 02 of {val:02X})
HexBase == 16         \* utilities.py:36

----------------------------------------------------------------------------
(* Python values and call outcomes *)

PyInt(n) == [t |-> "int", v |-> n]
PyStr(s) == [t |-> "str", v |-> s]
PyList(l) == [t |-> "list", v |-> l]
PyNone == [t |-> "NoneType", v |-> 0]
PyIntList(l) == PyList([i \in 1..Len(l) |-> PyInt(l[i])])

Return(v) == [raised |-> "", value |-> <<v>>]
Raise(e) == [raised |-> e, value |-> <<>>]

Byte == 0..255

----------------------------------------------------------------------------
(* Characters *)

HexUpper == <<"0", "1", "2", "3", "4", "5", "6", "7", "8", "9", "A", "B", "C", "D", "E", "F">>
HexLower == <<"0", "1", "2", "3", "4", "5", "6", "7", "8", "9", "a", "b", "c", "d", "e", "f">>

IsHexDigit(c) == \E i \in 1..HexBase : HexUpper[i] = c \/ HexLower[i] = c
DigitValue(c) == (CHOOSE i \in 1..HexBase : HexUpper[i] = c \/ HexLower[i] = c) - 1

RECURSIVE Repeat(_, _)
Repeat(c, n) == IF n <= 0 THEN <<>> ELSE <<c>> \o Repeat(c, n - 1)

Drop(s, n) == SubSeq(s, n + 1, Len(s))

----------------------------------------------------------------------------
(* The format specification 02X: uppercase hex, sign first, zero-filled    *)
(* to at least two characters.                                             *)

RECURSIVE HexDigitsOf(_)
HexDigitsOf(n) ==
    IF n < HexBase THEN <<HexUpper[n + 1]>>
    ELSE HexDigitsOf(n \div HexBase) \o <<HexUpper[(n % HexBase) + 1]>>

Format02X(val) ==
    LET sign == IF val < 0 THEN <<"-">> ELSE <<>>
        digits == HexDigitsOf(IF val < 0 THEN -val ELSE val)
    IN  sign \o Repeat("0", FormatWidth - Len(sign) - Len(digits)) \o digits

(* ":".join(parts) *)
RECURSIVE Join(_)
Join(parts) ==
    IF Len(parts) = 0 THEN <<>>
    ELSE IF Len(parts) = 1 THEN parts[1]
    ELSE parts[1] \o <<":">> \o Join(Tail(parts))

(* s.split(":"): always at least one token, empty tokens kept *)
RECURSIVE Split(_)
Split(s) ==
    IF \A i \in 1..Len(s) : s[i] # ":" THEN <<s>>
    ELSE LET k == CHOOSE i \in 1..Len(s) : s[i] = ":" /\ \A j \in 1..(i - 1) : s[j] # ":"
         IN  <<SubSeq(s, 1, k - 1)>> \o Split(Drop(s, k))

----------------------------------------------------------------------------
(* int(element, 16): surrounding whitespace is stripped, then an optional  *)
(* sign, an optional 0x / 0X prefix, and hex digits in which single        *)
(* underscores may separate digits (or follow the prefix).                 *)

RECURSIVE StripLeft(_)
StripLeft(s) == IF Len(s) > 0 /\ s[1] = " " THEN StripLeft(Tail(s)) ELSE s

RECURSIVE StripRight(_)
StripRight(s) == IF Len(s) > 0 /\ s[Len(s)] = " " THEN StripRight(SubSeq(s, 1, Len(s) - 1)) ELSE s

HasSign(s) == Len(s) > 0 /\ s[1] \in {"+", "-"}
HasPrefix(s) == Len(s) >= 2 /\ s[1] = "0" /\ s[2] \in {"x", "X"}

(* the digit part: nonempty, ends with a digit, no two underscores in a    *)
(* row, a leading underscore only right after a prefix                     *)
WellFormedDigits(d, afterPrefix) ==
    /\ Len(d) > 0
    /\ \A i \in 1..Len(d) : IsHexDigit(d[i]) \/ d[i] = "_"
    /\ d[Len(d)] # "_"
    /\ (d[1] = "_" => afterPrefix)
    /\ \A i \in 1..(Len(d) - 1) : ~(d[i] = "_" /\ d[i + 1] = "_")

RECURSIVE DigitsValue(_, _)
DigitsValue(d, base) ==
    IF Len(d) = 0 THEN 0
    ELSE IF d[Len(d)] = "_" THEN DigitsValue(SubSeq(d, 1, Len(d) - 1), base)
    ELSE DigitsValue(SubSeq(d, 1, Len(d) - 1), base) * base + DigitValue(d[Len(d)])

IsDecimal(d) == Len(d) > 0 /\ \A i \in 1..Len(d) : IsHexDigit(d[i]) /\ DigitValue(d[i]) < 10

(* int(element): base 10 *)
ParseInt10(element) ==
    LET s == StripRight(StripLeft(element))
        unsigned == IF HasSign(s) THEN Tail(s) ELSE s
        negative == HasSign(s) /\ s[1] = "-"
    IN  IF IsDecimal(unsigned)
        THEN [ok |-> TRUE, v |-> IF negative THEN -DigitsValue(unsigned, 10) ELSE DigitsValue(unsigned, 10)]
        ELSE [ok |-> FALSE, v |-> 0]

ParseInt16(element) ==
    LET s == StripRight(StripLeft(element))
        unsigned == IF HasSign(s) THEN Tail(s) ELSE s
        negative == HasSign(s) /\ s[1] = "-"
        digits == IF HasPrefix(unsigned) THEN Drop(unsigned, 2) ELSE unsigned
    IN  IF WellFormedDigits(digits, HasPrefix(unsigned))
        THEN [ok |-> TRUE, v |-> IF negative THEN -DigitsValue(digits, HexBase) ELSE DigitsValue(digits, HexBase)]
        ELSE [ok |-> FALSE, v |-> 0]

----------------------------------------------------------------------------
(* utilities.py: the identifier codec *)

enocean_id_to_string(identifier) ==
    Join([i \in 1..Len(identifier) |-> Format02X(identifier[i])])

string_to_enocean_id_base10(identifier) ==
    LET tokens == Split(identifier)
        parsed == [i \in 1..Len(tokens) |-> ParseInt10(tokens[i])]
    IN  IF \E i \in 1..Len(tokens) : ~parsed[i].ok THEN Raise("InvalidEnOceanId")
        ELSE IF Len(tokens) # IdLength THEN Raise("InvalidEnOceanId")
        ELSE Return([i \in 1..Len(tokens) |-> parsed[i].v])

(* Every element of id_elements comes out of int(), so the isinstance test *)
(* of line 40 is always true and only the length is checked.               *)
string_to_enocean_id(identifier) ==
    LET tokens == Split(identifier)
        parsed == [i \in 1..Len(tokens) |-> ParseInt16(tokens[i])]
    IN  IF \E i \in 1..Len(tokens) : ~parsed[i].ok THEN Raise("InvalidEnOceanId")
        ELSE IF Len(tokens) # IdLength THEN Raise("InvalidEnOceanId")
        ELSE Return([i \in 1..Len(tokens) |-> parsed[i].v])

----------------------------------------------------------------------------
(* utilities.py: EnOceanEEP *)

IsInt(x) == x.t = "int"

EEP(rorg, func, type) == [rorg |-> rorg, func |-> func, type |-> type]
PyEEP(e) == [t |-> "EnOceanEEP", v |-> e]

EnOceanEEP_raising_id_error(input_eep) ==
    LET tokens == Split(input_eep.v)
        parsed == [i \in 1..Len(tokens) |-> ParseInt16(tokens[i])]
    IN  IF input_eep.t = "str" /\ \E i \in 1..Len(tokens) : ~parsed[i].ok
        THEN Raise("InvalidEnOceanId")
        ELSE IF input_eep.t \notin {"str", "list"}
        THEN Raise("UnboundLocalError")
        ELSE LET eep_elements == IF input_eep.t = "str"
                                 THEN [i \in 1..Len(tokens) |-> PyInt(parsed[i].v)]
                                 ELSE input_eep.v
             IN  IF Len(eep_elements) # EEPLength
                    \/ ~(\A i \in 1..Len(eep_elements) : IsInt(eep_elements[i]))
                 THEN Raise("InvalidEnOceanId")
                 ELSE Return(EEP(eep_elements[1].v, eep_elements[2].v, eep_elements[3].v))

(* __init__: an input that is neither str nor list leaves eep_elements     *)
(* unbound, and line 66 then raises UnboundLocalError.                     *)
EnOceanEEP(input_eep) ==
    LET tokens == Split(input_eep.v)
        parsed == [i \in 1..Len(tokens) |-> ParseInt16(tokens[i])]
    IN  IF input_eep.t = "str" /\ \E i \in 1..Len(tokens) : ~parsed[i].ok
        THEN Raise("InvalidEnOceanEEP")
        ELSE IF input_eep.t \notin {"str", "list"}
        THEN Raise("UnboundLocalError")
        ELSE LET eep_elements == IF input_eep.t = "str"
                                 THEN [i \in 1..Len(tokens) |-> PyInt(parsed[i].v)]
                                 ELSE input_eep.v
             IN  IF Len(eep_elements) # EEPLength
                    \/ ~(\A i \in 1..Len(eep_elements) : IsInt(eep_elements[i]))
                 THEN Raise("InvalidEnOceanEEP")
                 ELSE Return(EEP(eep_elements[1].v, eep_elements[2].v, eep_elements[3].v))

EEP__str__swapped(self) ==
    Format02X(self.rorg) \o <<":">> \o Format02X(self.type) \o <<":">> \o Format02X(self.func)

EEP__str__(self) ==
    Format02X(self.rorg) \o <<":">> \o Format02X(self.func) \o <<":">> \o Format02X(self.type)

string_representation(self) == EEP__str__(self)

EEP__eq__ignoring_type(self, other) ==
    IF other.t # "EnOceanEEP" THEN FALSE
    ELSE self.rorg = other.v.rorg /\ self.func = other.v.func

EEP__eq__(self, other) ==
    IF other.t # "EnOceanEEP" THEN FALSE
    ELSE self.rorg = other.v.rorg /\ self.func = other.v.func /\ self.type = other.v.type

----------------------------------------------------------------------------
(* utilities.py: DiscoveredEnOceanDeviceInfo *)

None == <<>>
Some(v) == <<v>>

(* A packet as the discovery view reads it: rorg_func and rorg_type are    *)
(* None until the library has classified the telegram; rorg_of_eep is read *)
(* for a UTETeachIn only.                                                  *)
DiscoveredPacket(cls, rorg, rorg_of_eep, rorg_func, rorg_type) ==
    [cls |-> cls, rorg |-> rorg, rorg_of_eep |-> rorg_of_eep, rorg_func |-> rorg_func, rorg_type |-> rorg_type]

eep_with_outer_rorg(p) ==
    IF p.rorg_type = None \/ p.rorg_func = None THEN Return(PyNone)
    ELSE LET made == EnOceanEEP(PyIntList(<<p.rorg, p.rorg_func[1], p.rorg_type[1]>>))
         IN  IF made.raised # "" THEN made ELSE Return(PyEEP(made.value[1]))

eep(p) ==
    IF p.rorg_type = None \/ p.rorg_func = None THEN Return(PyNone)
    ELSE LET rorg == IF p.cls = "UTETeachIn" THEN p.rorg_of_eep ELSE p.rorg
             made == EnOceanEEP(PyIntList(<<rorg, p.rorg_func[1], p.rorg_type[1]>>))
         IN  IF made.raised # "" THEN made ELSE Return(PyEEP(made.value[1]))

----------------------------------------------------------------------------
(* Inputs of the codec *)

Chars(str) ==
    CASE str = "04" -> <<"0", "4">>
      [] str = "FF" -> <<"F", "F">>
      [] str = "100" -> <<"1", "0", "0">>
      [] str = "-1" -> <<"-", "1">>
      [] str = "zz" -> <<"z", "z">>
      [] str = "" -> <<>>
      [] str = "0x1F" -> <<"0", "x", "1", "F">>
      [] str = " 7" -> <<" ", "7">>
      [] str = "1_0" -> <<"1", "_", "0">>
      [] str = "_1" -> <<"_", "1">>
      [] str = "+a" -> <<"+", "a">>
      [] str = "0x" -> <<"0", "x">>
      [] str = "1__0" -> <<"1", "_", "_", "0">>

CoreTokens == {Chars("04"), Chars("FF"), Chars("100"), Chars("-1"), Chars("zz"), Chars("")}
ExoticTokens == {Chars("0x1F"), Chars(" 7"), Chars("1_0"), Chars("_1"), Chars("+a"), Chars("0x"), Chars("1__0")}

SeqsUpTo(S, n) == UNION {[1..k -> S] : k \in 0..n}

(* every string is the join of its colon-free tokens *)
StringInputs ==
    {Join(ts) : ts \in SeqsUpTo(CoreTokens, MaxTokens)}
    \cup {Join(<<e>> \o rest) : e \in ExoticTokens,
                                rest \in {[i \in 1..k |-> Chars("04")] : k \in 1..(MaxTokens - 1)}}

ByteSamples == {0, 10, 255}
NonByteSamples == {256, -1}

(* lists of n bytes: every byte value occurs at every position *)
ByteLists(n) ==
    {[j \in 1..n |-> IF j = i THEN x ELSE rest[j]] :
        i \in 1..n, x \in Byte, rest \in [1..n -> ByteSamples]}

IdListInputs == ByteLists(IdLength) \cup SeqsUpTo({0, 255} \cup NonByteSamples, MaxListLen)

EEPInputs ==
    {PyStr(s) : s \in StringInputs}
    \cup {PyIntList(l) : l \in ByteLists(EEPLength)}
    \cup {PyList(l) : l \in SeqsUpTo({PyInt(26), PyInt(256), PyStr(Chars("zz"))}, MaxListLen)}
    \cup {PyNone}

DiscoveredPackets ==
    {DiscoveredPacket(cls, rorg, of_eep, func, type) :
        cls \in {"RadioPacket", "UTETeachIn"}, rorg \in {212, 165, 210}, of_eep \in {210, 165},
        func \in {None, Some(1), Some(2)}, type \in {None, Some(1), Some(10)}}

EEPSamples == {EEP(r, f, t) : r \in {0, 26}, f \in {0, 43}, t \in {0, 60, 61}}

----------------------------------------------------------------------------
(* Calls of the codec.  A behaviour starts with one pending call         *)
(* [to |-> function, v |-> argument] in arg; origin records the value      *)
(* whose string form was handed to the parser, <<>> when the argument did  *)
(* not come from one.                                                      *)

Pending(to, v) == [to |-> to, v |-> v]

CodecIdle ==
    /\ fn = "idle"
    /\ arg = <<>>
    /\ ret = Return(<<>>)
    /\ origin = <<>>

CodecInit ==
    /\ fn = "none"
    /\ \/ \E b \in IdListInputs : arg = Pending("enocean_id_to_string", b)
       \/ \E s \in StringInputs : arg = Pending("string_to_enocean_id", s)
       \/ \E i \in EEPInputs : arg = Pending("EnOceanEEP", i)
       \/ \E p \in DiscoveredPackets : arg = Pending("eep", p)
       \/ \E self \in EEPSamples, other \in {PyEEP(e) : e \in EEPSamples} \cup {PyNone} :
             arg = Pending("__eq__", <<self, other>>)
    /\ ret = Return(<<>>)
    /\ origin = <<>>

Call_enocean_id_to_string ==
    /\ fn = "none" /\ arg.to = "enocean_id_to_string"
    /\ fn' = "enocean_id_to_string"
    /\ arg' = arg.v
    /\ ret' = Return(enocean_id_to_string(arg.v))
    /\ origin' = <<>>
    /\ UNCHANGED <<switchVars, busVars, dongleVars>>

Call_string_to_enocean_id ==
    /\ fn = "none" /\ arg.to = "string_to_enocean_id"
    /\ fn' = "string_to_enocean_id"
    /\ arg' = arg.v
    /\ ret' = string_to_enocean_id(arg.v)
    /\ origin' = <<>>
    /\ UNCHANGED <<switchVars, busVars, dongleVars>>

(* the string an identifier was formatted to is parsed back *)
Call_string_to_enocean_id_on_result ==
    /\ fn = "enocean_id_to_string"
    /\ fn' = "string_to_enocean_id"
    /\ arg' = ret.value[1]
    /\ ret' = string_to_enocean_id(ret.value[1])
    /\ origin' = <<arg>>
    /\ UNCHANGED <<switchVars, busVars, dongleVars>>

Call_EnOceanEEP ==
    /\ fn = "none" /\ arg.to = "EnOceanEEP"
    /\ fn' = "EnOceanEEP"
    /\ arg' = arg.v
    /\ ret' = EnOceanEEP(arg.v)
    /\ origin' = <<>>
    /\ UNCHANGED <<switchVars, busVars, dongleVars>>

Call_string_representation ==
    /\ fn = "EnOceanEEP"
    /\ origin = <<>>
    /\ ret.raised = ""
    /\ fn' = "string_representation"
    /\ arg' = ret.value[1]
    /\ ret' = Return(string_representation(ret.value[1]))
    /\ origin' = <<>>
    /\ UNCHANGED <<switchVars, busVars, dongleVars>>

(* test_enocean_eep_string_conversion_cycle: EnOceanEEP(eep.string_representation) *)
Call_EnOceanEEP_on_result ==
    /\ fn = "string_representation"
    /\ fn' = "EnOceanEEP"
    /\ arg' = PyStr(ret.value[1])
    /\ ret' = EnOceanEEP(PyStr(ret.value[1]))
    /\ origin' = <<arg>>
    /\ UNCHANGED <<switchVars, busVars, dongleVars>>

Call_eq ==
    /\ fn = "none" /\ arg.to = "__eq__"
    /\ fn' = "__eq__"
    /\ arg' = arg.v
    /\ ret' = Return(EEP__eq__(arg.v[1], arg.v[2]))
    /\ origin' = <<>>
    /\ UNCHANGED <<switchVars, busVars, dongleVars>>

Call_eep ==
    /\ fn = "none" /\ arg.to = "eep"
    /\ fn' = "eep"
    /\ arg' = arg.v
    /\ ret' = eep(arg.v)
    /\ origin' = <<>>
    /\ UNCHANGED <<switchVars, busVars, dongleVars>>

CodecNext ==
    \/ Call_enocean_id_to_string
    \/ Call_string_to_enocean_id
    \/ Call_string_to_enocean_id_on_result
    \/ Call_EnOceanEEP
    \/ Call_string_representation
    \/ Call_EnOceanEEP_on_result
    \/ Call_eq
    \/ Call_eep

----------------------------------------------------------------------------
(* switch.py: the switch platform *)

ON_LEVEL == 100                \* switch.py:121  (0x64)
OFF_LEVEL == 0                 \* switch.py:133
POWER_METER_RORG == 165        \* switch.py:141  (0xA5)
ACTUATOR_RORG == 210           \* switch.py:151  (0xD2)
STATUS_COMMAND == 4            \* switch.py:154
CURRENT_VALUE == 1             \* switch.py:144
RADIO_PACKET_TYPE == 1         \* switch.py:123
DEFAULT_CHANNEL == 0           \* switch.py:27

MaxEntities == 1               \* most entities the platform adds

(* EnOceanSwitch.__init__ *)
EnOceanSwitch(dev_id, channel) ==
    [dev_id |-> dev_id, channel |-> channel, on_state |-> FALSE, on_state2 |-> FALSE]

(* EnOceanEntity.send_command: wraps the fields in a Packet and publishes  *)
(* it on SIGNAL_SEND_MESSAGE.                                              *)
send_command(data, optional, packet_type) ==
    <<[packet_type |-> packet_type, data |-> data, optional |-> optional]>>

NoPacket == [data |-> <<0>>, DT |-> 0, MR |-> 0, DIV |-> 0, CMD |-> 0, IO |-> 0, OV |-> 0]

(* Configurations accepted by PLATFORM_SCHEMA: id is a list of ints,       *)
(* channel a non-negative int that defaults to 0.                          *)
DevIdSamples == {<<4, 5, 6, 7>>, <<1, 2, 3, 4, 5>>}
ChannelSamples == {DEFAULT_CHANNEL, 1, 2, 257}

(* what the platform configuration says about the channel: nothing, or a  *)
(* value; PLATFORM_SCHEMA fills in the default                             *)
ConfiguredChannels == {None} \cup {Some(c) : c \in ChannelSamples}
config_get_channel(conf_channel) == IF conf_channel = None THEN DEFAULT_CHANNEL ELSE conf_channel[1]

setup_platform ==
    \E dev_id \in DevIdSamples, conf_channel \in ConfiguredChannels :
        /\ Len(entities) < MaxEntities
        /\ entities' = Append(entities, EnOceanSwitch(dev_id, config_get_channel(conf_channel)))
        /\ send_channel' = <<>>
        /\ op' = <<"setup_platform", Len(entities) + 1, conf_channel>>
        /\ packet' = NoPacket
        /\ UNCHANGED <<codecVars, dongleVars>>

(* self.channel & 0xFF, the channel being non-negative *)
LowByte(n) == n % 256

turn_on_not_optimistic ==
    \E i \in 1..Len(entities) :
    LET self == entities[i]
        optional == <<3>> \o self.dev_id \o <<255, 0>>
    IN  /\ send_channel' = send_command(
               <<ACTUATOR_RORG, 1, LowByte(self.channel), ON_LEVEL, 0, 0, 0, 0, 0>>,
               optional, RADIO_PACKET_TYPE)
        /\ entities' = entities
        /\ op' = <<"turn_on", i>>
        /\ packet' = NoPacket
        /\ UNCHANGED <<codecVars, dongleVars>>

turn_on ==
    \E i \in 1..Len(entities) :
    LET self == entities[i]
        optional == <<3>> \o self.dev_id \o <<255, 0>>
    IN  /\ send_channel' = send_command(
               <<ACTUATOR_RORG, 1, LowByte(self.channel), ON_LEVEL, 0, 0, 0, 0, 0>>,
               optional, RADIO_PACKET_TYPE)
        /\ entities' = [entities EXCEPT ![i].on_state = TRUE]
        /\ op' = <<"turn_on", i>>
        /\ packet' = NoPacket
        /\ UNCHANGED <<codecVars, dongleVars>>

turn_off ==
    \E i \in 1..Len(entities) :
    LET self == entities[i]
        optional == <<3>> \o self.dev_id \o <<255, 0>>
    IN  /\ send_channel' = send_command(
               <<ACTUATOR_RORG, 1, LowByte(self.channel), OFF_LEVEL, 0, 0, 0, 0, 0>>,
               optional, RADIO_PACKET_TYPE)
        /\ entities' = [entities EXCEPT ![i].on_state = FALSE]
        /\ op' = <<"turn_off", i>>
        /\ packet' = NoPacket
        /\ UNCHANGED <<codecVars, dongleVars>>

RECURSIVE Pow10(_)
Pow10(n) == IF n = 0 THEN 1 ELSE 10 * Pow10(n - 1)

(* watts = raw_val / (10 ** divisor), kept as the fraction <<raw_val, 10 ** divisor>> *)
Watts(raw_val, divisor) == <<raw_val, Pow10(divisor)>>
GreaterThan(watts, n) == watts[1] > n * watts[2]

(* Telegrams as parse_eep decodes them: the fields of A5-12-01 for a power *)
(* meter telegram, those of D2-01-01 for an actuator telegram.             *)
PowerMeterPackets ==
    {[data |-> <<POWER_METER_RORG>>, DT |-> dt, MR |-> mr, DIV |-> div, CMD |-> 0, IO |-> 0, OV |-> 0] :
        dt \in {0, 1}, mr \in {5, 10, 11, 150}, div \in {0, 1}}
ActuatorPackets ==
    {[data |-> <<ACTUATOR_RORG>>, DT |-> 0, MR |-> 0, DIV |-> 0, CMD |-> cmd, IO |-> io, OV |-> ov] :
        cmd \in {1, STATUS_COMMAND}, io \in {0, 1, 2}, ov \in {0, 100}}
OtherPackets ==
    {[data |-> <<246>>, DT |-> 0, MR |-> 0, DIV |-> 0, CMD |-> 0, IO |-> 0, OV |-> 0]}
Telegrams == PowerMeterPackets \cup ActuatorPackets \cup OtherPackets

(* the value _on_state has after value_changed(p) *)
value_changed_state_threshold_10(self, p) ==
    IF p.data[1] = POWER_METER_RORG
    THEN IF p.DT = CURRENT_VALUE /\ GreaterThan(Watts(p.MR, p.DIV), 10)
         THEN TRUE
         ELSE self.on_state
    ELSE IF p.data[1] = ACTUATOR_RORG
    THEN IF p.CMD = STATUS_COMMAND /\ p.IO = self.channel
         THEN p.OV > 0
         ELSE self.on_state
    ELSE self.on_state

value_changed_state(self, p) ==
    IF p.data[1] = POWER_METER_RORG
    THEN IF p.DT = CURRENT_VALUE /\ GreaterThan(Watts(p.MR, p.DIV), 1)
         THEN TRUE
         ELSE self.on_state
    ELSE IF p.data[1] = ACTUATOR_RORG
    THEN IF p.CMD = STATUS_COMMAND /\ p.IO = self.channel
         THEN p.OV > 0
         ELSE self.on_state
    ELSE self.on_state

value_changed ==
    \E i \in 1..Len(entities), p \in Telegrams :
        /\ entities' = [entities EXCEPT ![i].on_state = value_changed_state(entities[i], p)]
        /\ send_channel' = <<>>
        /\ op' = <<"value_changed", i>>
        /\ packet' = p
        /\ UNCHANGED <<codecVars, dongleVars>>

SwitchInit ==
    /\ entities = <<>>
    /\ send_channel = <<>>
    /\ op = <<"none", 0>>
    /\ packet = NoPacket

SwitchNext ==
    \/ setup_platform
    \/ turn_on
    \/ turn_off
    \/ value_changed

----------------------------------------------------------------------------
(* switch.py: the other two ways entities are made *)

MaxEntries == 2                \* most entity registry entries of the config entry

INIT_CHANNEL == 1              \* switch.py:95  (channel: int = 1)
DUAL_CHANNEL_TYPE_A == 16      \* switch.py:81  (0x10)
DUAL_CHANNEL_TYPE_B == 17      \* switch.py:81  (0x11)

(* unique ids found in the entity registry *)
UniqueIdSamples ==
    {enocean_id_to_string(<<4, 5, 6, 7>>),
     enocean_id_to_string(<<1, 2, 3, 255>>),
     Join(<<Chars("04"), Chars("zz"), Chars("FF"), Chars("04")>>),
     Join(<<Chars("04"), Chars("FF")>>),
     Join(<<Chars("100"), Chars("04"), Chars("04"), Chars("04")>>)}

(* the loop of async_setup_entry: one EnOceanSwitch per registry entry,   *)
(* made with the constructor's default channel; the first unique id that  *)
(* string_to_enocean_id rejects ends the call with its exception           *)
entities_to_add(unique_ids) ==
    LET parsed == [i \in 1..Len(unique_ids) |-> string_to_enocean_id(unique_ids[i])]
    IN  IF \E i \in 1..Len(unique_ids) : parsed[i].raised # ""
        THEN Raise("InvalidEnOceanId")
        ELSE Return([i \in 1..Len(unique_ids) |-> EnOceanSwitch(parsed[i].value[1], INIT_CHANNEL)])

(* switch.py async_setup_entry: async_add_entities is reached only when   *)
(* the loop has finished                                                   *)
switch_async_setup_entry ==
    \E unique_ids \in SeqsUpTo(UniqueIdSamples, MaxEntries) :
        LET made == entities_to_add(unique_ids)
        IN  /\ Len(entities) <= MaxEntities
            /\ entities' = IF made.raised = "" THEN entities \o made.value[1] ELSE entities
            /\ send_channel' = <<>>
            /\ op' = <<"switch_async_setup_entry", Len(entities) + 1, unique_ids, made.raised>>
            /\ packet' = NoPacket
            /\ UNCHANGED <<codecVars, dongleVars>>

(* packets a discovery is made from *)
DiscoveryInputs ==
    {DiscoveredPacket(cls, 210, 210, func, type) :
        cls \in {"RadioPacket", "UTETeachIn"},
        func \in {None, Some(1), Some(2)},
        type \in {None, Some(1), Some(DUAL_CHANNEL_TYPE_A), Some(DUAL_CHANNEL_TYPE_B)}}
    \cup {DiscoveredPacket("RadioPacket", 165, 210, Some(1), Some(DUAL_CHANNEL_TYPE_A))}

(* entities_for_discovered_device: the entities it constructs.  eep.rorg   *)
(* on an absent eep raises AttributeError.  The function has no return     *)
(* statement: the caller gets None, the constructed list is dropped.       *)
entities_for_discovered_device(p, sender) ==
    LET discovered == eep(p)
        device_id == enocean_id_to_string(sender)
    IN  IF discovered.raised # "" THEN discovered
        ELSE IF discovered.value[1].t = "NoneType" THEN Raise("AttributeError")
        ELSE LET profile == discovered.value[1].v
             IN  IF profile.rorg = ACTUATOR_RORG /\ profile.func = 1
                 THEN Return(<<EnOceanSwitch(device_id, 1)>>
                             \o IF profile.type \in {DUAL_CHANNEL_TYPE_A, DUAL_CHANNEL_TYPE_B}
                                THEN <<EnOceanSwitch(device_id, 2)>>
                                ELSE <<>>)
                 ELSE Return(<<>>)

discover_device ==
    \E p \in DiscoveryInputs, sender \in {<<4, 5, 6, 7>>, <<1, 2, 3, 255>>} :
        /\ op' = <<"entities_for_discovered_device", 0, p, entities_for_discovered_device(p, sender)>>
        /\ send_channel' = <<>>
        /\ packet' = NoPacket
        /\ UNCHANGED <<codecVars, switchVars, dongleVars>>

PlatformNext ==
    \/ setup_platform
    \/ switch_async_setup_entry
    \/ discover_device

----------------------------------------------------------------------------
(* dongle.py and __init__.py: the dongle adapter and the config entry *)

MaxDongles == 2                \* most EnOceanDongle objects created
MaxSent == 2                   \* most commands a transport is asked to send
MaxQueue == 2                  \* most packets in a communicator's receive queue
MaxJobs == 1                   \* most check_dongle_base_id jobs pending per dongle

DOMAIN_ENOCEAN == "enocean"         \* const.py DOMAIN
SERIAL_IDENTIFIER == "ttyUSB0"   \* basename(normpath(serial_path))

(* Packets the communicator hands to its callback.  UTETeachIn is a        *)
(* subclass of RadioPacket; response_data is the base id a response        *)
(* carries, <<>> when it carries none.                                     *)
SenderSamples == {<<4, 5, 6, 7>>, <<1, 2, 3, 4>>}
BASE_ID == <<255, 128, 0, 0>>

RadioPackets ==
    {[cls |-> "RadioPacket", packet_type |-> "RADIO", sender |-> s, learn |-> l, contains_eep |-> l,
      response_data |-> <<>>] : s \in SenderSamples, l \in BOOLEAN}
TeachInPackets ==
    {[cls |-> "UTETeachIn", packet_type |-> "RADIO", sender |-> s, learn |-> FALSE, contains_eep |-> FALSE,
      response_data |-> <<>>] : s \in SenderSamples}
ResponsePackets ==
    {[cls |-> "ResponsePacket", packet_type |-> "RESPONSE", sender |-> <<>>, learn |-> FALSE,
      contains_eep |-> FALSE, response_data |-> r] : r \in {<<>>, BASE_ID}}
EventPackets ==
    {[cls |-> "EventPacket", packet_type |-> "EVENT", sender |-> <<>>, learn |-> FALSE,
      contains_eep |-> FALSE, response_data |-> <<>>]}
InboundPackets == RadioPackets \cup TeachInPackets \cup ResponsePackets \cup EventPackets

IsRadioPacket(p) == p.cls \in {"RadioPacket", "UTETeachIn"}
IsUTETeachIn(p) == p.cls = "UTETeachIn"

CommandSamples ==
    {[packet_type |-> RADIO_PACKET_TYPE, data |-> <<ACTUATOR_RORG, 1, 1, level, 0, 0, 0, 0, 0>>,
      optional |-> <<3, 4, 5, 6, 7, 255, 0>>] : level \in {ON_LEVEL, OFF_LEVEL}}

(* EnOceanDongle.__init__ followed by async_setup: the communicator is     *)
(* started, the base id is read once (None: nothing has been received      *)
(* yet), and the adapter is connected to SIGNAL_SEND_MESSAGE.              *)
async_setup ==
    [identifier |-> SERIAL_IDENTIFIER,
     base_id_response_expected |-> TRUE,
     dispatcher_disconnect_handle |-> TRUE,
     teach_in |-> FALSE,
     base_id |-> <<>>,
     receive |-> <<>>,
     jobs |-> 0,
     sent |-> <<>>]

(* SerialCommunicator.base_id: once set it is returned; otherwise the      *)
(* receive queue is searched for a response that carries a base id.        *)
base_id_after_read(self) ==
    IF self.base_id # <<>> THEN self.base_id
    ELSE IF \E k \in 1..Len(self.receive) : self.receive[k].packet_type = "RESPONSE"
                                            /\ self.receive[k].response_data # <<>>
    THEN LET k == CHOOSE k \in 1..Len(self.receive) :
                     /\ self.receive[k].packet_type = "RESPONSE" /\ self.receive[k].response_data # <<>>
                     /\ \A j \in 1..(k - 1) : ~(self.receive[j].packet_type = "RESPONSE"
                                                /\ self.receive[j].response_data # <<>>)
         IN  <<self.receive[k].response_data>>
    ELSE <<>>

Quiet ==
    /\ send_channel' = <<>>
    /\ receive_channel' = <<>>
    /\ create_attempts' = <<>>
    /\ packet' = NoPacket

(* __init__.py: async_setup_entry *)
async_setup_entry ==
    /\ entry_state = "not_loaded"
    /\ Len(dongles) < MaxDongles
    /\ dongles' = Append(dongles, async_setup)
    /\ send_subscribers' = send_subscribers \cup {Len(dongles) + 1}
    /\ hass_data' = Len(dongles) + 1
    /\ entry_state' = "loaded"
    /\ op' = <<"async_setup_entry", Len(dongles) + 1>>
    /\ Quiet
    /\ UNCHANGED <<codecVars, switchVars, registry>>

(* the disconnect handle is dropped without being called *)
unload_effect_handle_not_called(d) ==
    /\ dongles' = [dongles EXCEPT ![d].dispatcher_disconnect_handle = FALSE]
    /\ send_subscribers' = send_subscribers

(* EnOceanDongle.unload *)
unload_effect(d) ==
    IF dongles[d].dispatcher_disconnect_handle
    THEN /\ send_subscribers' = send_subscribers \ {d}
         /\ dongles' = [dongles EXCEPT ![d].dispatcher_disconnect_handle = FALSE]
    ELSE /\ send_subscribers' = send_subscribers
         /\ dongles' = dongles

unload ==
    \E d \in 1..Len(dongles) :
        /\ unload_effect(d)
        /\ op' = <<"unload", d>>
        /\ Quiet
        /\ UNCHANGED <<codecVars, switchVars, hass_data, entry_state, registry>>

(* __init__.py: async_unload_entry; unload_ok is whether every platform    *)
(* unloaded.  The entry is not loaded afterwards: True is returned in      *)
(* both cases.                                                             *)
async_unload_entry ==
    \E unload_ok \in BOOLEAN :
        /\ entry_state = "loaded"
        /\ IF unload_ok
           THEN /\ unload_effect(hass_data)
                /\ hass_data' = 0
           ELSE UNCHANGED <<dongles, send_subscribers, hass_data>>
        /\ entry_state' = "not_loaded"
        /\ op' = <<"async_unload_entry", IF unload_ok THEN hass_data ELSE 0>>
        /\ Quiet
        /\ UNCHANGED <<codecVars, switchVars, registry>>

(* _send_message_callback *)
send_message_callback(self, command) == [self EXCEPT !.sent = Append(self.sent, command)]

(* dispatcher_send(SIGNAL_SEND_MESSAGE, command): every connected adapter  *)
(* is called with the command.                                             *)
dispatcher_send ==
    \E command \in CommandSamples :
        /\ \A d \in 1..Len(dongles) : Len(dongles[d].sent) < MaxSent
        /\ dongles' = [d \in 1..Len(dongles) |->
                          IF d \in send_subscribers
                          THEN send_message_callback(dongles[d], command)
                          ELSE dongles[d]]
        /\ send_channel' = <<command>>
        /\ receive_channel' = <<>>
        /\ create_attempts' = <<>>
        /\ packet' = NoPacket
        /\ op' = <<"dispatcher_send", 0>>
        /\ UNCHANGED <<codecVars, switchVars, send_subscribers, hass_data, entry_state, registry>>

(* device_exists_for_packet: async_get_device returns a device that has    *)
(* one of the identifiers or one of the connections.                       *)
device_exists_for_packet(self, p) ==
    LET sender_id == enocean_id_to_string(p.sender)
    IN  \E device \in registry :
            \/ <<DOMAIN_ENOCEAN, sender_id>> \in device.identifiers
            \/ <<DOMAIN_ENOCEAN, self.identifier>> \in device.connections

(* create_device_for_packet_if_possible: only logs *)
create_device_for_packet_if_possible(p) ==
    IF IsUTETeachIn(p) THEN "TeachIn: Creating entities packet for unknown device"
    ELSE IF IsRadioPacket(p) /\ p.learn /\ p.contains_eep THEN "TODO: deal with learn packet that include EEP."
    ELSE "Cannot create device for packet"

callback_creating_and_dispatching(d, p) ==
    LET self == dongles[d]
    IN  IF p.packet_type = "RESPONSE" /\ self.base_id_response_expected
        THEN /\ dongles' = [dongles EXCEPT ![d].receive = Append(self.receive, p),
                                           ![d].jobs = self.jobs + 1]
             /\ receive_channel' = <<>>
             /\ create_attempts' = <<>>
        ELSE IF IsRadioPacket(p)
        THEN /\ create_attempts' = <<[packet |-> p, log |-> create_device_for_packet_if_possible(p)]>>
             /\ receive_channel' = <<p>>
             /\ dongles' = dongles
        ELSE /\ receive_channel' = <<>>
             /\ create_attempts' = <<>>
             /\ dongles' = dongles

callback_effect(d, p) ==
    LET self == dongles[d]
    IN  IF p.packet_type = "RESPONSE" /\ self.base_id_response_expected
        THEN /\ dongles' = [dongles EXCEPT ![d].receive = Append(self.receive, p),
                                           ![d].jobs = self.jobs + 1]
             /\ receive_channel' = <<>>
             /\ create_attempts' = <<>>
        ELSE IF IsRadioPacket(p)
        THEN IF ~device_exists_for_packet(self, p)
             THEN /\ create_attempts' = <<[packet |-> p, log |-> create_device_for_packet_if_possible(p)]>>
                  /\ receive_channel' = <<>>
                  /\ dongles' = dongles
             ELSE /\ receive_channel' = <<p>>
                  /\ create_attempts' = <<>>
                  /\ dongles' = dongles
        ELSE /\ receive_channel' = <<>>
             /\ create_attempts' = <<>>
             /\ dongles' = dongles

(* the callback scheduling the job without putting the response back *)
enocean_packet_received_callback_without_put ==
    \E d \in 1..Len(dongles), p \in InboundPackets :
        /\ (p.packet_type = "RESPONSE" /\ dongles[d].base_id_response_expected)
              => (Len(dongles[d].receive) < MaxQueue /\ dongles[d].jobs < MaxJobs)
        /\ IF p.packet_type = "RESPONSE" /\ dongles[d].base_id_response_expected
           THEN /\ dongles' = [dongles EXCEPT ![d].jobs = dongles[d].jobs + 1]
                /\ receive_channel' = <<>>
                /\ create_attempts' = <<>>
           ELSE callback_effect(d, p)
        /\ send_channel' = <<>>
        /\ packet' = p
        /\ op' = <<"enocean_packet_received_callback", d>>
        /\ UNCHANGED <<codecVars, switchVars, send_subscribers, hass_data, entry_state, registry>>

(* enocean_packet_received_callback, called by the communicator of any     *)
(* started dongle (unload does not stop the communicator)                  *)
enocean_packet_received_callback ==
    \E d \in 1..Len(dongles), p \in InboundPackets :
        /\ (p.packet_type = "RESPONSE" /\ dongles[d].base_id_response_expected)
              => (Len(dongles[d].receive) < MaxQueue /\ dongles[d].jobs < MaxJobs)
        /\ callback_effect(d, p)
        /\ send_channel' = <<>>
        /\ packet' = p
        /\ op' = <<"enocean_packet_received_callback", d>>
        /\ UNCHANGED <<codecVars, switchVars, send_subscribers, hass_data, entry_state, registry>>

(* the job without its test of dongle_id *)
check_dongle_base_id_without_id_test ==
    \E d \in 1..Len(dongles) :
        LET self == dongles[d]
            dongle_id == base_id_after_read(self)
        IN  /\ self.jobs > 0
            /\ dongles' = [dongles EXCEPT
                   ![d].jobs = self.jobs - 1,
                   ![d].base_id = dongle_id,
                   ![d].teach_in = TRUE,
                   ![d].base_id_response_expected = FALSE]
            /\ op' = <<"check_dongle_base_id", d>>
            /\ Quiet
            /\ UNCHANGED <<codecVars, switchVars, send_subscribers, hass_data, entry_state, registry>>

(* the job check_dongle_base_id, after its sleep *)
check_dongle_base_id ==
    \E d \in 1..Len(dongles) :
        LET self == dongles[d]
            dongle_id == base_id_after_read(self)
        IN  /\ self.jobs > 0
            /\ dongles' = [dongles EXCEPT
                   ![d].jobs = self.jobs - 1,
                   ![d].base_id = dongle_id,
                   ![d].teach_in = IF dongle_id # <<>> THEN TRUE ELSE self.teach_in,
                   ![d].base_id_response_expected =
                        IF dongle_id # <<>> THEN FALSE ELSE self.base_id_response_expected]
            /\ op' = <<"check_dongle_base_id", d>>
            /\ Quiet
            /\ UNCHANGED <<codecVars, switchVars, send_subscribers, hass_data, entry_state, registry>>

(* The host registers the device of an entity under its identifier.        *)
register_device ==
    \E s \in SenderSamples :
        LET device == [identifiers |-> {<<DOMAIN_ENOCEAN, enocean_id_to_string(s)>>}, connections |-> {}]
        IN  /\ device \notin registry
            /\ registry' = registry \cup {device}
            /\ op' = <<"register_device", 0>>
            /\ Quiet
            /\ UNCHANGED <<codecVars, switchVars, dongles, send_subscribers, hass_data, entry_state>>

DongleInit ==
    /\ dongles = <<>>
    /\ send_subscribers = {}
    /\ hass_data = 0
    /\ entry_state = "not_loaded"
    /\ registry = {}
    /\ receive_channel = <<>>
    /\ create_attempts = <<>>

(* the state the first async_setup_entry leaves: one adapter, set up *)
DongleSetUp ==
    /\ dongles = <<async_setup>>
    /\ send_subscribers = {1}
    /\ hass_data = 1
    /\ entry_state = "loaded"
    /\ registry = {}
    /\ receive_channel = <<>>
    /\ create_attempts = <<>>

(* the config entry's life cycle and the outbound channel *)
EntryNext ==
    \/ async_setup_entry
    \/ async_unload_entry
    \/ unload
    \/ dispatcher_send

(* the inbound side of one adapter *)
DongleNext ==
    \/ enocean_packet_received_callback
    \/ check_dongle_base_id
    \/ register_device

----------------------------------------------------------------------------
(* Specifications *)

InitCodec == CodecInit /\ SwitchInit /\ DongleInit

SpecCodec == InitCodec /\ [][CodecNext]_vars

InitSwitch == CodecIdle /\ SwitchInit /\ DongleInit

SpecSwitch == InitSwitch /\ [][SwitchNext]_vars

SpecPlatform == InitSwitch /\ [][PlatformNext]_vars

SpecEntry == InitSwitch /\ [][EntryNext]_vars

InitDongle == CodecIdle /\ SwitchInit /\ DongleSetUp

SpecDongle == InitDongle /\ [][DongleNext]_vars

----------------------------------------------------------------------------
(* Properties of the codec *)

ValidId(b) == Len(b) = IdLength /\ \A i \in 1..Len(b) : b[i] \in Byte

IsUpperHex(c) == \E i \in 1..HexBase : HexUpper[i] = c

(* s is n two-digit uppercase hex tokens joined by ":" *)
IsColonHex(s, n) ==
    /\ Len(s) = 3 * n - 1
    /\ \A i \in 1..Len(s) : IF i % 3 = 0 THEN s[i] = ":" ELSE IsUpperHex(s[i])

ValidIdString(s) ==
    LET tokens == Split(s)
    IN  /\ Len(tokens) = IdLength
        /\ \A i \in 1..Len(tokens) : ParseInt16(tokens[i]).ok /\ ParseInt16(tokens[i]).v \in Byte

(* C1: for every list b of exactly 4 values in 0..255, parsing the string  *)
(* enocean_id_to_string(b) with string_to_enocean_id returns b, and that   *)
(* string is 4 two-digit uppercase hex tokens joined by ":", 11 characters *)
(* long.                                                                   *)
C1_IdRoundTrip ==
    /\ (fn = "string_to_enocean_id" /\ origin # <<>> /\ ValidId(origin[1]))
          => ret = Return(origin[1])
    /\ (fn = "enocean_id_to_string" /\ ValidId(arg))
          => (IsColonHex(ret.value[1], IdLength) /\ Len(ret.value[1]) = 11)

C1_Witness ==
    /\ fn = "string_to_enocean_id"
    /\ origin = << <<0, 10, 255, 171>> >>
    /\ arg = <<"0", "0", ":", "0", "A", ":", "F", "F", ":", "A", "B">>

(* C2: string_to_enocean_id returns only for exactly 4 colon-separated     *)
(* hex tokens each with a value in 0..255, the returned list then has 4    *)
(* elements in 0..255, and every other string fails with InvalidEnOceanId. *)
C2_OnlyByteIdsReturned ==
    fn = "string_to_enocean_id" =>
        /\ (ret.raised = "" <=> ValidIdString(arg))
        /\ (ret.raised = "" => ValidId(ret.value[1]))
        /\ (ret.raised # "" => ret.raised = "InvalidEnOceanId")

ValidProfile(e) == e.rorg \in Byte /\ e.func \in Byte /\ e.type \in Byte

(* C3: for every triple p of values in 0..255, the profile built from the  *)
(* string representation of EnOceanEEP(p) is equal to EnOceanEEP(p).       *)
C3_EEPRoundTrip ==
    (fn = "EnOceanEEP" /\ origin # <<>> /\ ValidProfile(origin[1]))
        => /\ ret.raised = ""
           /\ EEP__eq__(ret.value[1], PyEEP(origin[1]))
           /\ ret.value[1] = origin[1]

C3_Witness ==
    /\ fn = "EnOceanEEP"
    /\ origin = <<EEP(26, 0, 255)>>
    /\ arg = PyStr(<<"1", "A", ":", "0", "0", ":", "F", "F">>)

InvalidEEPInput(input_eep) ==
    \/ /\ input_eep.t = "str"
       /\ \/ Len(Split(input_eep.v)) # EEPLength
          \/ \E i \in 1..Len(Split(input_eep.v)) : ~ParseInt16(Split(input_eep.v)[i]).ok
    \/ /\ input_eep.t = "list"
       /\ \/ Len(input_eep.v) # EEPLength
          \/ \E i \in 1..Len(input_eep.v) : input_eep.v[i].t # "int"

C5_EEPEquality ==
    (fn = "__eq__" /\ arg[2].t = "EnOceanEEP")
        => (ret.value[1] <=> (arg[1] = arg[2].v))

C5_Witness ==
    /\ fn = "__eq__"
    /\ arg[2].t = "EnOceanEEP"
    /\ arg[1] = EEP(26, 43, 60)
    /\ arg[2].v = EEP(26, 43, 61)
    /\ ret.value[1] = FALSE

(* C6: the eep of a discovered device is None exactly when the packet's  *)
(* rorg_func or rorg_type is not populated; otherwise it is the profile    *)
(* [r, rorg_func, rorg_type] with r the embedded rorg_of_eep for a UTE     *)
(* teach-in and the packet's own rorg for any other packet.                *)
C6_DiscoveredEEP ==
    fn = "eep" =>
        LET unpopulated == arg.rorg_func = <<>> \/ arg.rorg_type = <<>>
            r == IF arg.cls = "UTETeachIn" THEN arg.rorg_of_eep ELSE arg.rorg
        IN  /\ ret.raised = ""
            /\ (ret.value[1].t = "NoneType") <=> unpopulated
            /\ ~unpopulated =>
                  /\ ret.value[1].t = "EnOceanEEP"
                  /\ ret.value[1].v.rorg = r
                  /\ ret.value[1].v.func = arg.rorg_func[1]
                  /\ ret.value[1].v.type = arg.rorg_type[1]

(* a teach-in whose outer RORG 0xD4 differs from the embedded 0xD2 *)
C6_Witness ==
    /\ fn = "eep"
    /\ arg = DiscoveredPacket("UTETeachIn", 212, 210, <<1>>, <<10>>)
    /\ ret.value[1].t = "EnOceanEEP"

----------------------------------------------------------------------------
(* Properties of the switch entity *)

C10_EightByteOptional ==
    [][op'[1] \in {"turn_on", "turn_off"} =>
        LET self == entities[op'[2]]
            level == IF op'[1] = "turn_on" THEN 100 ELSE 0
        IN  /\ Len(send_channel') = 1
            /\ send_channel'[1].data = <<210, 1, self.channel, level, 0, 0, 0, 0, 0>>
            /\ Len(send_channel'[1].optional) = 8
            /\ SubSeq(send_channel'[1].optional, 2, Len(self.dev_id) + 1) = self.dev_id
            /\ entities'[op'[2]].on_state = (op'[1] = "turn_on")
    ]_vars

(* C10 amended: turn_on / turn_off push exactly one command with the 9     *)
(* data bytes [0xD2, 0x01, channel & 0xFF, level, 0, 0, 0, 0, 0], level    *)
(* 0x64 / 0x00, and the optional field [0x03] + device identifier +        *)
(* [0xFF, 0x00] (7 bytes for a 4-byte identifier), and on_state is true    *)
(* after turn_on, false after turn_off, whatever it was before.            *)
C10_TurnOnOff ==
    [][op'[1] \in {"turn_on", "turn_off"} =>
        LET self == entities[op'[2]]
            level == IF op'[1] = "turn_on" THEN 100 ELSE 0
            command == send_channel'[1]
        IN  /\ Len(send_channel') = 1
            /\ Len(command.data) = 9
            /\ command.data = <<210, 1, self.channel % 256, level, 0, 0, 0, 0, 0>>
            /\ command.optional = <<3>> \o self.dev_id \o <<255, 0>>
            /\ Len(command.optional) = Len(self.dev_id) + 3
            /\ (Len(self.dev_id) = 4 => Len(command.optional) = 7)
            /\ entities'[op'[2]].on_state = (op'[1] = "turn_on")
    ]_vars

(* turn_on on an entity that was off, with a 4-byte identifier *)
C10_Witness ==
    /\ op = <<"turn_on", 1>>
    /\ entities[1].dev_id = <<4, 5, 6, 7>>
    /\ entities[1].on_state
    /\ Len(send_channel) = 1
    /\ Len(send_channel[1].optional) = 7

----------------------------------------------------------------------------
(* Properties of the dongle adapter *)

RegisteredFor(sender) ==
    \E device \in registry : <<DOMAIN_ENOCEAN, enocean_id_to_string(sender)>> \in device.identifiers

SetUpAndNotUnloaded(d) == dongles[d].dispatcher_disconnect_handle

(* C9: between an adapter's setup and its unload every command published   *)
(* on the send channel causes exactly one send call on its transport, with *)
(* that command, in publication order; nothing else makes the transport    *)
(* send; after unload no published command reaches the transport; and an   *)
(* unload of an adapter that is already disconnected changes nothing.      *)
C9_SendForwarding ==
    [][/\ op'[1] = "dispatcher_send" =>
            /\ Len(send_channel') = 1
            /\ \A d \in 1..Len(dongles) :
                  dongles'[d].sent = IF SetUpAndNotUnloaded(d)
                                     THEN Append(dongles[d].sent, send_channel'[1])
                                     ELSE dongles[d].sent
       /\ op'[1] # "dispatcher_send" =>
            \A d \in 1..Len(dongles) : dongles'[d].sent = dongles[d].sent
       /\ op'[1] \in {"unload", "async_unload_entry"} /\ op'[2] # 0 =>
            /\ ~dongles'[op'[2]].dispatcher_disconnect_handle
            /\ op'[2] \notin send_subscribers'
       /\ op'[1] = "unload" /\ ~SetUpAndNotUnloaded(op'[2]) =>
            UNCHANGED <<dongles, send_subscribers, hass_data, entry_state, registry>>
    ]_vars

(* a command published after the adapter's unload, not sent *)
C9_Witness ==
    /\ op[1] = "dispatcher_send"
    /\ Len(dongles) = 1
    /\ ~dongles[1].dispatcher_disconnect_handle
    /\ Len(dongles[1].sent) = 1
    /\ send_channel # dongles[1].sent

----------------------------------------------------------------------------
(* Properties of the ways switch entities are made *)

ChannelsOf(made) == [i \in 1..Len(made) |-> made[i].channel]

(* C11: an entity made without an explicitly configured channel has       *)
(* channel 1, whether it comes from the static platform configuration,    *)
(* from the registry, or from a discovered D2-01 device (1, and 1 and 2   *)
(* for a dual-channel actuator).                                           *)
C11_ChannelDefaultsToOne ==
    /\ (op[1] = "setup_platform" /\ op[3] = <<>>) => entities[op[2]].channel = 1
    /\ (op[1] = "switch_async_setup_entry" /\ op[4] = "") =>
          \A i \in op[2]..Len(entities) : entities[i].channel = 1
    /\ (op[1] = "entities_for_discovered_device" /\ op[4].raised = "" /\ op[4].value[1] # <<>>) =>
          ChannelsOf(op[4].value[1]) =
              IF op[3].rorg_type[1] \in {16, 17} THEN <<1, 2>> ELSE <<1>>

IdBytes(str) == [i \in 1..Len(Split(str)) |-> ParseInt16(Split(str)[i]).v]

(* C12: on a reload every entity's device identifier is the 4-byte list   *)
(* its unique key parses to; if any unique key is not a valid identifier  *)
(* string the codec error ends the reload and no entity is added.          *)
C12_ReloadParsesOrAborts ==
    [][op'[1] = "switch_async_setup_entry" =>
        LET unique_ids == op'[3]
        IN  IF \A i \in 1..Len(unique_ids) : ValidIdString(unique_ids[i])
            THEN /\ op'[4] = ""
                 /\ Len(entities') = Len(entities) + Len(unique_ids)
                 /\ SubSeq(entities', 1, Len(entities)) = entities
                 /\ \A i \in 1..Len(unique_ids) :
                       /\ entities'[Len(entities) + i].dev_id = IdBytes(unique_ids[i])
                       /\ ValidId(entities'[Len(entities) + i].dev_id)
            ELSE /\ op'[4] = "InvalidEnOceanId"
                 /\ entities' = entities
    ]_vars

(* C13: an adapter awaits identification after async_setup.  It stops    *)
(* awaiting only in a step of the job check_dongle_base_id, a job that a   *)
(* response received while awaiting has scheduled, and only when that job  *)
(* finds the base id resolved; the same step sets teach_in.  An adapter    *)
(* that no longer awaits never awaits again, whatever arrives.  teach_in   *)
(* is never set while the base id is unresolved.                           *)
C13_IdentificationLifecycle ==
    /\ [](\A d \in 1..Len(dongles) : dongles[d].teach_in => dongles[d].base_id # <<>>)
    /\ [][\A d \in 1..Len(dongles) :
            /\ async_setup.base_id_response_expected /\ ~async_setup.teach_in
            /\ dongles'[d].jobs > dongles[d].jobs =>
                   /\ op' = <<"enocean_packet_received_callback", d>>
                   /\ packet'.packet_type = "RESPONSE"
                   /\ dongles[d].base_id_response_expected
            /\ (dongles[d].base_id_response_expected /\ ~dongles'[d].base_id_response_expected) =>
                   /\ op' = <<"check_dongle_base_id", d>>
                   /\ dongles[d].jobs > 0
                   /\ dongles'[d].base_id # <<>>
                   /\ dongles'[d].teach_in
            /\ (op' = <<"check_dongle_base_id", d>> /\ dongles'[d].base_id # <<>>) =>
                   ~dongles'[d].base_id_response_expected /\ dongles'[d].teach_in
            /\ ~dongles[d].base_id_response_expected => ~dongles'[d].base_id_response_expected
       ]_vars

(* an identified adapter with teach_in set has received a further response *)
C13_Witness ==
    /\ op = <<"enocean_packet_received_callback", 1>>
    /\ packet.packet_type = "RESPONSE"
    /\ ~dongles[1].base_id_response_expected
    /\ dongles[1].teach_in
    /\ dongles[1].base_id = <<BASE_ID>>

(* C14: a response received while the adapter awaits identification is    *)
(* appended once to the communicator's receive queue in the step that      *)
(* schedules its job, and is neither dispatched nor used to create a       *)
(* device; the job never touches the queue.  A job that finds no base id   *)
(* leaves the adapter awaiting with teach_in as it was (not set) and       *)
(* raises nothing.  A response received by an identified adapter changes   *)
(* nothing: no put, no job, no dispatch, no creation.                      *)
C14_ResponseReinjection ==
    [][\A d \in 1..Len(dongles) :
          /\ (op' = <<"enocean_packet_received_callback", d>> /\ packet'.packet_type = "RESPONSE") =>
                 /\ receive_channel' = <<>>
                 /\ create_attempts' = <<>>
                 /\ IF dongles[d].base_id_response_expected
                    THEN dongles' = [dongles EXCEPT ![d].receive = Append(dongles[d].receive, packet'),
                                                    ![d].jobs = dongles[d].jobs + 1]
                    ELSE dongles' = dongles
          /\ op' = <<"check_dongle_base_id", d>> =>
                 /\ dongles[d].jobs > 0
                 /\ dongles'[d].receive = dongles[d].receive
                 /\ dongles'[d].base_id = <<>> =>
                        /\ dongles'[d].base_id_response_expected = dongles[d].base_id_response_expected
                        /\ ~dongles'[d].teach_in
                        /\ dongles' = [dongles EXCEPT ![d].jobs = dongles[d].jobs - 1]
      ]_vars

(* a first response without a base id left the adapter awaiting; a later   *)
(* response with the base id completed the identification                  *)
C14_Witness ==
    /\ op = <<"check_dongle_base_id", 1>>
    /\ Len(dongles[1].receive) = 2
    /\ dongles[1].receive[1].response_data = <<>>
    /\ dongles[1].receive[2].response_data = BASE_ID
    /\ ~dongles[1].base_id_response_expected
    /\ dongles[1].teach_in

(* C15: whatever setups and unloads of the config entry have run, at most  *)
(* one adapter is connected to the send signal, and after                  *)
(* async_unload_entry (which returns True) none is.                        *)
C15_AtMostOneSubscriber ==
    /\ Cardinality(send_subscribers) <= 1
    /\ op[1] = "async_unload_entry" => send_subscribers = {}

====
